---- MODULE Spec2Model ----
(***************************************************************************)
(* Model of tool/generate_ast.py: the schema classes (Parameter,           *)
(* AST_Class), the two catalog builders, the emitter (define_ast and its   *)
(* helpers) and the command-line entry point main.                         *)
(*                                                                         *)
(* Text is a sequence of lines; a line is its indentation width and its    *)
(* tokens.  Every chunk the program writes ends in a newline, so a write   *)
(* appends whole lines.  Identifiers built by string interpolation         *)
(* (visit<Name><Base>, <Base>.java) are built by string concatenation.     *)
(***************************************************************************)
EXTENDS Integers, Sequences, FiniteSets, TLC

\* ------------------------------------------------------------- bounds ---
MaxVariants == 2      \* longest variant list a client passes to define_ast
MaxCalls    == 2      \* define_ast calls a client makes with one input
MaxArgc     == 4      \* largest len(sys.argv) tried
MaxParams   == 2      \* longest parameter list of a rendered AST_Class

\* -------------------------------------------------------- schema model ---
Expression_Type == <<"Assign", "Binary", "Grouping", "Literal", "Unary", "Variable">>

Statement_Type == <<"Expr", "Print", "Var">>

Parameter_Type == <<"Expression", "Token", "Object">>

Range(s) == {s[k] : k \in DOMAIN s}

Parameter(param_type, param_name) ==
  [param_type |-> param_type, param_name |-> param_name]

\* Parameter.__str__ : f"{param_type} {param_name}"
Parameter_str(p) == <<p.param_type, p.param_name>>

AST_Class(base_name, name, parameters) ==
  [base_name |-> base_name, name |-> name, parameters |-> parameters]

Line(indent, toks) == [indent |-> indent, toks |-> toks]

Blank == Line(0, <<>>)

\* ', '.join(parts)
RECURSIVE Join(_)
Join(parts) ==
  IF Len(parts) = 0 THEN <<>>
  ELSE IF Len(parts) = 1 THEN parts[1]
  ELSE parts[1] \o <<",">> \o Join(Tail(parts))

generate_class_decl(self) ==
  <<Line(2, <<"static", "class", self.name, "extends", self.base_name, "{">>)>>

generate_constructor_decl(self) ==
  LET params == [k \in 1..Len(self.parameters) |-> Parameter_str(self.parameters[k])]
  IN  <<Line(4, <<self.name, "(">> \o Join(params) \o <<")", "{">>)>>

\* the assignments emitted last parameter first
generate_fields_reversed(self) ==
  [k \in 1..Len(self.parameters) |->
     Line(8, <<"this", ".", self.parameters[Len(self.parameters) + 1 - k].param_name, "=",
               self.parameters[Len(self.parameters) + 1 - k].param_name, ";">>)]

generate_fields(self) ==
  [k \in 1..Len(self.parameters) |->
     Line(8, <<"this", ".", self.parameters[k].param_name, "=",
               self.parameters[k].param_name, ";">>)]

generate_constructor_end == <<Line(4, <<"}">>), Blank>>

generate_visitor_method(self) ==
  LET override == <<Line(4, <<"@Override">>)>>
      accept   == <<Line(4, <<"<R>", "R", "accept", "(", "Visitor<R>", "visitor", ")", "{">>)>>
      ret      == <<Line(8, <<"return", "visitor", ".",
                              ("visit" \o self.name) \o self.base_name,
                              "(", "this", ")", ";">>)>>
      end      == <<Line(4, <<"}">>), Blank>>
  IN  override \o accept \o ret \o end

generate_final_fields(self) ==
  [k \in 1..Len(self.parameters) |->
     Line(4, <<"final">> \o Parameter_str(self.parameters[k]) \o <<";">>)]

generate_class_end == <<Line(2, <<"}">>), Blank>>

AST_Class_str(self) ==
  generate_class_decl(self) \o generate_constructor_decl(self) \o
  generate_fields(self) \o generate_constructor_end \o
  generate_visitor_method(self) \o generate_final_fields(self) \o
  generate_class_end

\* ------------------------------------------------------ schema catalog ---
build_expressions(base_name) ==
  LET assign   == AST_Class(base_name, Expression_Type[1],
                    <<Parameter("Token", "name"), Parameter("Expression", "value")>>)
      binary   == AST_Class(base_name, Expression_Type[2],
                    <<Parameter("Expression", "left"), Parameter("Token", "operator"),
                      Parameter("Expression", "right")>>)
      grouping == AST_Class(base_name, Expression_Type[3],
                    <<Parameter("Expression", "expression")>>)
      literal  == AST_Class(base_name, Expression_Type[4],
                    <<Parameter("Object", "value")>>)
      unary    == AST_Class(base_name, Expression_Type[5],
                    <<Parameter("Token", "operator"), Parameter("Expression", "right")>>)
      variable == AST_Class(base_name, Expression_Type[6],
                    <<Parameter("Token", "name")>>)
  IN  <<assign, binary, grouping, literal, unary, variable>>

build_statements(base_name) ==
  LET expr == AST_Class(base_name, Statement_Type[1],
                <<Parameter("Expression", "expression")>>)
      prnt == AST_Class(base_name, Statement_Type[2],
                <<Parameter("Expression", "expression")>>)
      vrbl == AST_Class(base_name, Statement_Type[3],
                <<Parameter("Token", "name"), Parameter("Expression", "initializer")>>)
  IN  <<expr, prnt, vrbl>>

\* ------------------------------------------------------------- emitter ---
\* str.casefold on the base names in use
casefold(s) ==
  IF s = "Expression" THEN "expression"
  ELSE IF s = "Statement" THEN "statement"
  ELSE s

generate_visitor_interface(base_name, expression_types) ==
  LET start == <<Line(2, <<"interface", "Visitor<R>", "{">>)>>
      types == [k \in 1..Len(expression_types) |->
                  Line(4, <<"R", ("visit" \o expression_types[k]) \o base_name, "(",
                            expression_types[k], casefold(base_name), ")", ";">>)]
      end   == <<Line(2, <<"}">>), Blank>>
  IN  start \o types \o end

base_accept_method ==
  LET comment == <<Line(2, <<"// Base accept method">>)>>
      method  == <<Line(2, <<"abstract", "<R>", "R", "accept", "(", "Visitor<R>",
                             "visitor", ")", ";">>)>>
  IN  comment \o method

Header(base_name) ==
  << Line(0, <<"// This file was generated using tool/generate_ast.py any changes made">>),
     Line(0, <<"// here may be overwritten.">>),
     Line(0, <<"package", "com.cthuloops.jlox", ";">>),
     Blank,
     Line(0, <<"import", "java.util.List", ";">>),
     Blank,
     Line(0, <<"abstract", "class", base_name, "{">>) >>

\* path.join(output_dir, f"{base_name}.java"), relative to output_dir
FilePath(base_name) == base_name \o ".java"

\* [str(name) for name in type(tag)] : the members of the enum the tag is of
EnumNames(tag) ==
  IF tag \in Range(Expression_Type) THEN Expression_Type ELSE Statement_Type

NoFile == [exists |-> FALSE, text |-> <<>>]

\* open(filepath, "a"): create or keep the content
Open_append(old) == [exists |-> TRUE, text |-> old.text]

\* open(filepath, "w"): create or truncate
Open(old) == [exists |-> TRUE, text |-> <<>>]

\* f.write / f.writelines
Write(file, lines) == [file EXCEPT !.text = @ \o lines]

\* the file opened before ast[0] is read
Body_open_first ==
  <<"filepath", "open", "enum_type", "header", "visitor", "items", "accept", "end">>

\* the abstract accept declaration written before the class blocks
Body_accept_first ==
  <<"filepath", "enum_type", "open", "header", "visitor", "accept", "items", "end">>

\* the statements of define_ast, in program order
Body == <<"filepath", "enum_type", "open", "header", "visitor", "items", "accept", "end">>

\* the arity test as len(sys.argv) < 2
UsageError_too_few(argc) == argc < 2

\* main's arity test: len(sys.argv) != 2
UsageError(argc) == argc # 2

UsageLine == "Usage: generate_ast <output directory>"

\* --------------------------------------------------------------- state ---
VARIABLES
  caller,     \* "main": the script entry point; "client": a caller of define_ast
  argc,       \* len(sys.argv)
  input,      \* the (base_name, ast) a client passes to define_ast
  mpc,        \* the caller's position
  fstate,     \* define_ast's frame: "none", "running", "returned", "raised"
  frame,      \* define_ast's arguments
  pc,         \* index into Body of the next statement of the frame
  filepath,   \* define_ast's local
  enum_type,  \* define_ast's local (as the list of the enum's member names)
  i,          \* position of the for loop over ast
  fs,         \* the output directory: file name -> file
  stderr,     \* lines on the error stream
  status,     \* exit status, -1 while the process runs
  ncalls,     \* define_ast calls that have returned to the client
  fs0,        \* history: the output directory at process start
  snap,       \* history: the output file after the client's first call
  item,       \* the AST_Class rendered by str(item)
  out         \* the result of str(item)

vars == <<caller, argc, input, mpc, fstate, frame, pc, filepath, enum_type, i,
          fs, stderr, status, ncalls, fs0, snap, item, out>>

BaseNames == {"Expression", "Statement"}

Files == {FilePath(b) : b \in BaseNames}

OldFile == [exists |-> TRUE, text |-> <<Line(0, <<"old">>)>>]

\* the variants a client builds: catalog entries of these tags, for either family
PoolTags == {"Binary", "Literal", "Print", "Var"}

Pool ==
  {v \in UNION {Range(build_expressions(b)) \cup Range(build_statements(b)) : b \in BaseNames} :
     v.name \in PoolTags}

Inputs ==
  {[base_name |-> b, ast |-> a] :
     b \in BaseNames, a \in UNION {[1..n -> Pool] : n \in 0..MaxVariants}}

NoInput == [base_name |-> "Expression", ast |-> <<>>]

NoItem == AST_Class("Expression", "Literal", <<>>)

InitCommon ==
  /\ fstate = "none"
  /\ frame = NoInput
  /\ pc = 0
  /\ filepath = ""
  /\ enum_type = <<>>
  /\ i = 0
  /\ fs \in {[f \in Files |-> NoFile], [f \in Files |-> OldFile]}
  /\ fs0 = fs
  /\ stderr = <<>>
  /\ status = -1
  /\ ncalls = 0
  /\ snap = NoFile
  /\ out = <<>>

InitMain ==
  /\ caller = "main"
  /\ argc \in 1..MaxArgc
  /\ input = NoInput
  /\ mpc = "check"
  /\ item = NoItem
  /\ InitCommon

InitClient ==
  /\ caller = "client"
  /\ argc = 1
  /\ input \in Inputs
  /\ mpc = "call"
  /\ item = NoItem
  /\ InitCommon

Init == InitMain \/ InitClient

strVars == <<item, out>>
histVars == <<fs0, argc, input, caller>>
frameVars == <<frame, pc, filepath, enum_type, i>>

\* ---------------------------------------------------------------- main ---
Call(base_name, ast) ==
  /\ fstate' = "running"
  /\ frame' = [base_name |-> base_name, ast |-> ast]
  /\ pc' = 1
  /\ i' = 1
  /\ filepath' = ""
  /\ enum_type' = <<>>

MainUsage ==
  /\ caller = "main" /\ mpc = "check"
  /\ UsageError(argc)
  /\ stderr' = Append(stderr, UsageLine)
  /\ status' = 64
  /\ mpc' = "exit"
  /\ UNCHANGED <<fstate, frameVars, fs, ncalls, snap, histVars, strVars>>

MainExpressions ==
  /\ caller = "main" /\ mpc = "check"
  /\ ~UsageError(argc)
  /\ Call("Expression", build_expressions("Expression"))
  /\ mpc' = "expr"
  /\ UNCHANGED <<fs, stderr, status, ncalls, snap, histVars, strVars>>

MainStatements ==
  /\ caller = "main" /\ mpc = "expr" /\ fstate = "returned"
  /\ Call("Statement", build_statements("Statement"))
  /\ mpc' = "stmt"
  /\ UNCHANGED <<fs, stderr, status, ncalls, snap, histVars, strVars>>

MainReturn ==
  /\ caller = "main" /\ mpc = "stmt" /\ fstate = "returned"
  /\ fstate' = "none"
  /\ status' = 0
  /\ mpc' = "exit"
  /\ UNCHANGED <<frameVars, fs, stderr, ncalls, snap, histVars, strVars>>

\* -------------------------------------------------------------- client ---
ClientCall ==
  /\ caller = "client" /\ mpc = "call" /\ fstate = "none"
  /\ ncalls < MaxCalls
  /\ Call(input.base_name, input.ast)
  /\ UNCHANGED <<mpc, fs, stderr, status, ncalls, snap, histVars, strVars>>

ClientReturn ==
  /\ caller = "client" /\ fstate = "returned"
  /\ fstate' = "none"
  /\ ncalls' = ncalls + 1
  /\ snap' = IF ncalls = 0 THEN fs[filepath] ELSE snap
  /\ UNCHANGED <<mpc, frameVars, fs, stderr, status, histVars, strVars>>

\* an exception leaving define_ast is caught by nobody: traceback, status 1
Uncaught ==
  /\ fstate = "raised"
  /\ fstate' = "none"
  /\ stderr' = Append(stderr, "IndexError: list index out of range")
  /\ status' = 1
  /\ mpc' = "exit"
  /\ UNCHANGED <<frameVars, fs, ncalls, snap, histVars, strVars>>

\* ---------------------------------------------------------- define_ast ---
At(stmt) == fstate = "running" /\ pc \in 1..Len(Body) /\ Body[pc] = stmt

Step == fstate' = fstate /\ pc' = pc + 1

callerVars == <<mpc, stderr, status, ncalls, snap, histVars, strVars>>

DefFilepath ==
  /\ At("filepath")
  /\ filepath' = FilePath(frame.base_name)
  /\ Step
  /\ UNCHANGED <<frame, enum_type, i, fs, callerVars>>

\* enum_type = type(ast[0].name); ast[0] raises IndexError on an empty list
DefEnumType ==
  /\ At("enum_type")
  /\ IF Len(frame.ast) = 0
       THEN /\ fstate' = "raised"
            /\ UNCHANGED <<pc, enum_type>>
       ELSE /\ enum_type' = EnumNames(frame.ast[1].name)
            /\ Step
  /\ UNCHANGED <<frame, filepath, i, fs, callerVars>>

DefOpen ==
  /\ At("open")
  /\ fs' = [fs EXCEPT ![filepath] = Open(@)]
  /\ Step
  /\ UNCHANGED <<frame, filepath, enum_type, i, callerVars>>

DefHeader ==
  /\ At("header")
  /\ fs' = [fs EXCEPT ![filepath] = Write(@, Header(frame.base_name))]
  /\ Step
  /\ UNCHANGED <<frame, filepath, enum_type, i, callerVars>>

\* the interface generated from the names of the list's variants
DefVisitor_per_variant ==
  /\ At("visitor")
  /\ fs' = [fs EXCEPT ![filepath] =
              Write(@, generate_visitor_interface(frame.base_name,
                         [k \in 1..Len(frame.ast) |-> frame.ast[k].name]))]
  /\ Step
  /\ UNCHANGED <<frame, filepath, enum_type, i, callerVars>>

DefVisitor ==
  /\ At("visitor")
  /\ fs' = [fs EXCEPT ![filepath] =
              Write(@, generate_visitor_interface(frame.base_name, enum_type))]
  /\ Step
  /\ UNCHANGED <<frame, filepath, enum_type, i, callerVars>>

\* for item in ast: f.write(str(item))
DefItems ==
  /\ At("items")
  /\ IF i <= Len(frame.ast)
       THEN /\ fs' = [fs EXCEPT ![filepath] = Write(@, AST_Class_str(frame.ast[i]))]
            /\ i' = i + 1
            /\ UNCHANGED <<fstate, pc>>
       ELSE /\ Step
            /\ UNCHANGED <<fs, i>>
  /\ UNCHANGED <<frame, filepath, enum_type, callerVars>>

DefAccept ==
  /\ At("accept")
  /\ fs' = [fs EXCEPT ![filepath] = Write(@, base_accept_method)]
  /\ Step
  /\ UNCHANGED <<frame, filepath, enum_type, i, callerVars>>

DefEnd ==
  /\ At("end")
  /\ fs' = [fs EXCEPT ![filepath] = Write(@, <<Line(0, <<"}">>)>>)]
  /\ Step
  /\ UNCHANGED <<frame, filepath, enum_type, i, callerVars>>

\* the with block is left (the file is closed) and define_ast returns
DefReturn ==
  /\ fstate = "running" /\ pc = Len(Body) + 1
  /\ fstate' = "returned"
  /\ UNCHANGED <<frameVars, fs, callerVars>>

define_ast ==
  \/ DefFilepath \/ DefEnumType \/ DefOpen \/ DefHeader
  \/ DefVisitor \/ DefItems \/ DefAccept \/ DefEnd \/ DefReturn

Next ==
  \/ MainUsage \/ MainExpressions \/ MainStatements \/ MainReturn
  \/ ClientCall \/ ClientReturn \/ Uncaught
  \/ define_ast

Spec == Init /\ [][Next]_vars

\* ----------------------------------------------------------- str(item) ---
ParamNames == {"name", "value"}

ParamPool == {Parameter(t, n) : t \in Range(Parameter_Type), n \in ParamNames}

Items ==
  {AST_Class(b, t, ps) :
     b \in BaseNames,
     t \in Range(Expression_Type) \cup Range(Statement_Type),
     ps \in UNION {[1..n -> ParamPool] : n \in 0..MaxParams}}

InitStr ==
  /\ caller = "str"
  /\ argc = 1
  /\ input = NoInput
  /\ mpc = "render"
  /\ InitCommon
  /\ fs = [f \in Files |-> NoFile]
  /\ item \in Items

\* AST_Class.__str__ applied to item
Str ==
  /\ caller = "str" /\ mpc = "render"
  /\ out' = AST_Class_str(item)
  /\ mpc' = "exit"
  /\ UNCHANGED <<caller, argc, input, fstate, frameVars, fs, stderr, status,
                 ncalls, fs0, snap, item>>

NextStr == Str

SpecStr == InitStr /\ [][NextStr]_vars

TypeOK ==
  /\ fstate \in {"none", "running", "returned", "raised"}
  /\ status \in {-1, 0, 1, 64}
  /\ pc \in 0..(Len(Body) + 1)

\* ============================================================ properties ===
\* ------------------------------------------------- reading emitted text ---
Text == fs[filepath].text

\* define_ast has run to its end for (frame.base_name, frame.ast)
Done == fstate = "returned"

Tags(ast) == {ast[k].name : k \in DOMAIN ast}

Min(S) == CHOOSE x \in S : \A y \in S : x <= y

\* the lines strictly between `interface Visitor<R> {` and its closing brace
VisitorBlock(t) ==
  LET s == Min({k \in 1..Len(t) : t[k].toks = <<"interface", "Visitor<R>", "{">>})
      e == Min({k \in (s + 1)..Len(t) : t[k].indent = 2 /\ t[k].toks = <<"}">>})
  IN  [k \in 1..(e - s - 1) |-> t[s + k]]

MethodNames(t) == [k \in 1..Len(VisitorBlock(t)) |-> VisitorBlock(t)[k].toks[2]]

Declared(t, nm) == {k \in 1..Len(VisitorBlock(t)) : VisitorBlock(t)[k].toks[2] = nm}

StartsWith(l, tok) == Len(l.toks) >= 1 /\ l.toks[1] = tok

ClassStarts(t) == {k \in 1..Len(t) : t[k].indent = 2 /\ StartsWith(t[k], "static")}

\* line number of the k-th `static class` line
KthClass(t, k) ==
  CHOOSE j \in ClassStarts(t) : Cardinality({x \in ClassStarts(t) : x <= j}) = k

\* the `return visitor.<method>(this);` line of the k-th class block
ReturnLine(t, k) ==
  t[Min({r \in KthClass(t, k)..Len(t) : t[r].indent = 8 /\ StartsWith(t[r], "return")})]

\* the distinct elements of a sequence in the order of their first occurrence
RECURSIVE FirstOccurrences(_)
FirstOccurrences(s) ==
  IF Len(s) = 0 THEN <<>>
  ELSE LET init == FirstOccurrences(SubSeq(s, 1, Len(s) - 1))
       IN  IF s[Len(s)] \in Range(init) THEN init ELSE Append(init, s[Len(s)])

\* C1: the Visitor interface holds one method per distinct tag of the variant
\* list: as many methods as distinct tags, every tag has its method and every
\* method belongs to a tag of the list.
C1_MethodPerDistinctTag ==
  Done =>
    /\ Len(MethodNames(Text)) = Cardinality(Tags(frame.ast))
    /\ \A tg \in Tags(frame.ast) :
         Declared(Text, ("visit" \o tg) \o frame.base_name) # {}
    /\ \A k \in 1..Len(MethodNames(Text)) :
         \E tg \in Tags(frame.ast) :
           MethodNames(Text)[k] = ("visit" \o tg) \o frame.base_name

\* C2: for every variant v of the list the accept body calls
\* visit + v.name + base_name, and the interface declares a method of that name
\* whose parameter has type v.name.
C2_AcceptTargetDeclared ==
  Done =>
    \A k \in 1..Len(frame.ast) :
      LET target == ("visit" \o frame.ast[k].name) \o frame.base_name
      IN  /\ ReturnLine(Text, k).toks[4] = target
          /\ \E m \in Declared(Text, target) :
               VisitorBlock(Text)[m].toks[4] = frame.ast[k].name

\* C5: the interface's methods appear in the order in which their tags first
\* occur in the variant list.
C5_FirstOccurrenceOrder ==
  Done =>
    LET tags == FirstOccurrences([k \in 1..Len(frame.ast) |-> frame.ast[k].name])
    IN  MethodNames(Text) = [k \in 1..Len(tags) |-> ("visit" \o tags[k]) \o frame.base_name]

Mismatch == \E k \in 1..Len(frame.ast) : frame.ast[k].base_name # frame.base_name

\* C9: a variant whose own base_name differs from define_ast's base_name is a
\* precondition violation: define_ast does not run to completion on it.
C9_MismatchAborts == Mismatch => ~Done

\* C3: the class block of a variant with parameters p1..pn lists them three
\* times, in declared order and with their multiplicity: the constructor
\* parameter list is `<type> <name>` joined by commas, the constructor body is
\* `this.<name> = <name>;` per parameter, the final section is
\* `final <type> <name>;` per parameter.
C3_FieldsInDeclaredOrder ==
  (caller = "str" /\ mpc = "exit") =>
    LET ps   == item.parameters
        n    == Len(ps)
        ctor == out[2].toks
    IN  /\ Len(out) = 11 + 2 * n
        /\ Len(ctor) = IF n = 0 THEN 4 ELSE 3 * n + 3
        /\ ctor[1] = item.name /\ ctor[2] = "("
        /\ ctor[Len(ctor) - 1] = ")" /\ ctor[Len(ctor)] = "{"
        /\ \A k \in 1..n :
             /\ ctor[3 * k] = ps[k].param_type
             /\ ctor[3 * k + 1] = ps[k].param_name
             /\ (k < n => ctor[3 * k + 2] = ",")
             /\ out[2 + k] =
                  Line(8, <<"this", ".", ps[k].param_name, "=", ps[k].param_name, ";">>)
             /\ out[9 + n + k] =
                  Line(4, <<"final", ps[k].param_type, ps[k].param_name, ";">>)

\* a class block was rendered for a variant that repeats a parameter
C3_Witness ==
  /\ caller = "str" /\ mpc = "exit"
  /\ Len(item.parameters) = 2
  /\ item.parameters[1] = item.parameters[2]
  /\ Len(out) = 15

\* what a line is, read off its indentation and first tokens
Kind(l) ==
  IF l.toks = <<>> THEN "blank"
  ELSE IF l.toks = <<"}">> THEN
    (IF l.indent = 0 THEN "base_close" ELSE IF l.indent = 2 THEN "close2" ELSE "close4")
  ELSE IF l.indent = 0 THEN
    (IF l.toks[1] = "package" THEN "package"
     ELSE IF l.toks[1] = "import" THEN "import"
     ELSE IF l.toks[1] = "abstract" THEN "base_open"
     ELSE IF Len(l.toks) = 1 THEN "warning"
     ELSE "other")
  ELSE IF l.indent = 2 THEN
    (IF l.toks[1] = "interface" THEN "iface_open"
     ELSE IF l.toks[1] = "static" THEN "class_decl"
     ELSE IF l.toks[1] = "abstract" THEN "abstract_accept"
     ELSE IF l.toks = <<"// Base accept method">> THEN "accept_comment"
     ELSE "other")
  ELSE IF l.indent = 4 THEN
    (IF l.toks[1] = "R" THEN "iface_method"
     ELSE IF l.toks[1] = "@Override" THEN "override"
     ELSE IF l.toks[1] = "<R>" THEN "accept_open"
     ELSE IF l.toks[1] = "final" THEN "final"
     ELSE IF Len(l.toks) >= 2 /\ l.toks[2] = "(" THEN "ctor_decl"
     ELSE "other")
  ELSE IF l.indent = 8 THEN
    (IF l.toks[1] = "this" THEN "assign"
     ELSE IF l.toks[1] = "return" THEN "return"
     ELSE "other")
  ELSE "other"

Repeat(x, n) == [k \in 1..n |-> x]

\* the line kinds of the class block of a variant with n parameters
ClassKinds(n) ==
  <<"class_decl", "ctor_decl">> \o Repeat("assign", n) \o
  <<"close4", "blank", "override", "accept_open", "return", "close4", "blank">> \o
  Repeat("final", n) \o <<"close2", "blank">>

RECURSIVE AllClassKinds(_)
AllClassKinds(ast) ==
  IF Len(ast) = 0 THEN <<>>
  ELSE ClassKinds(Len(ast[1].parameters)) \o AllClassKinds(Tail(ast))

\* the line kinds of a whole file whose interface holds m methods
FileKinds(m, ast) ==
  <<"warning", "warning", "package", "blank", "import", "blank", "base_open">> \o
  <<"iface_open">> \o Repeat("iface_method", m) \o <<"close2", "blank">> \o
  AllClassKinds(ast) \o
  <<"accept_comment", "abstract_accept", "base_close">>

IsPrefix(a, b) == Len(a) <= Len(b) /\ a = SubSeq(b, 1, Len(a))

Kinds(t) == [k \in 1..Len(t) |-> Kind(t[k])]

MaxMethods == Len(Expression_Type)

\* C4: the file define_ast writes is, at every moment, a prefix of: preamble,
\* Visitor interface, one class block per variant in list order (the k-th
\* names the k-th variant, and holds its parts in the order class declaration,
\* constructor declaration, assignments, constructor end, accept method, final
\* fields, class end), abstract accept, closing brace; and it is all of it
\* when define_ast returns.
C4_SegmentOrder ==
  (filepath \in Files /\ fs[filepath] # fs0[filepath]) =>
    \E m \in 0..MaxMethods :
      /\ IsPrefix(Kinds(Text), FileKinds(m, frame.ast))
      /\ Done => Kinds(Text) = FileKinds(m, frame.ast)
      /\ Cardinality(ClassStarts(Text)) <= Len(frame.ast)
      /\ \A k \in 1..Cardinality(ClassStarts(Text)) :
           Text[KthClass(Text, k)].toks[3] = frame.ast[k].name

\* define_ast returned after writing two class blocks
C4_Witness ==
  /\ Done /\ Len(frame.ast) = 2
  /\ frame.ast[1].name = "Var" /\ frame.ast[2].name = "Binary"
  /\ Cardinality(ClassStarts(Text)) = 2

\* C6: with any number of arguments other than one, main writes the usage
\* line to the error stream and exits with status 64 without calling
\* define_ast: the output directory stays as it was.
C6_UsageErrorNoOutput ==
  (caller = "main" /\ argc # 2) =>
    /\ fs = fs0
    /\ fstate = "none"
    /\ mpc \in {"check", "exit"}
    /\ mpc = "exit" => (status = 64 /\ stderr = <<UsageLine>>)

\* main exited on two command-line arguments, an output file existing
C6_Witness ==
  /\ caller = "main" /\ argc = 3 /\ mpc = "exit" /\ status = 64
  /\ fs["Expression.java"].exists

\* C7: after any number n >= 1 of define_ast calls with equal arguments the
\* output file is what it was after the first call, and holds nothing of what
\* it held before.
C7_OverwriteIdempotent ==
  (caller = "client" /\ fstate \in {"none", "returned"} /\ ncalls >= 1) =>
    /\ fs[filepath] = snap
    /\ \A k \in 1..Len(Text) : Text[k] # Line(0, <<"old">>)

\* the second call returned on a file that existed before the first
C7_Witness ==
  /\ caller = "client" /\ fstate = "returned" /\ ncalls = 1
  /\ fs0[filepath].exists /\ Len(frame.ast) >= 1

\* C8: define_ast called with an empty list is aborted with an error before
\* the output file is opened: the file is neither created nor truncated nor
\* written to.
C8_EmptyListAborts ==
  (caller = "client" /\ input.ast = <<>>) =>
    /\ fs = fs0
    /\ fstate # "returned"
    /\ mpc = "exit" => status = 1

\* the call on an empty list raised, an output file existing
C8_Witness ==
  /\ caller = "client" /\ input.ast = <<>> /\ fstate = "raised"
  /\ fs0[filepath].exists

DuplicateTags ==
  {frame.ast[k].name : k \in {x \in 1..Len(frame.ast) :
                                \E y \in 1..Len(frame.ast) :
                                  y # x /\ frame.ast[y].name = frame.ast[x].name}}

====
